---------------------------- MODULE Spec2Model ----------------------------
(***************************************************************************)
(* A model of the mew_css style builder (antharuu/mew).                    *)
(*                                                                         *)
(* Rust `String`s are TLA+ strings; TLC evaluates \o, Len and SubSeq on    *)
(* them, so formatting is modelled character by character.  An f32 is      *)
(* modelled by the integer number of tenths it holds (5 is 0.5, 15 is      *)
(* 1.5): every f32 literal the builder is driven with here has at most one *)
(* fractional digit, and Rust prints the shortest decimal that reads back  *)
(* as the same f32, which for such a value is that literal.                *)
(*                                                                         *)
(* The state is one `Style` value (its `properties` vector) together with  *)
(* what its caller has seen: the log of the mutating calls made so far,    *)
(* the strings apply()/build() have returned, and the last method called.  *)
(* The constructors and Display impls that take no Style are exercised on  *)
(* their own: `evaluation` holds the latest such call, its argument and    *)
(* what it returned.                                                       *)
(***************************************************************************)
EXTENDS Naturals, Integers, Sequences, FiniteSets

VARIABLES
    properties,  \* Style.properties: Vec<Property>
    calls,       \* history: the mutating builder calls made, in order
    returned,    \* history: what the two latest apply()/build() calls returned
    lastOp,      \* the builder method called last ("new" after construction)
    evaluation   \* the latest call of a function that takes no Style, if any

vars == <<properties, calls, returned, lastOp, evaluation>>

\* Bound of the model: the number of mutating calls made on the Style.
MaxProps == 3

---------------------------------------------------------------------------
(* Rust standard-library pieces the code relies on *)

\* char::is_whitespace, restricted to the characters the inputs contain
is_whitespace(c) == c = " "

RECURSIVE trim_start(_)
trim_start(s) ==
    IF Len(s) > 0 /\ is_whitespace(SubSeq(s, 1, 1))
    THEN trim_start(SubSeq(s, 2, Len(s)))
    ELSE s

RECURSIVE trim_end(_)
trim_end(s) ==
    IF Len(s) > 0 /\ is_whitespace(SubSeq(s, Len(s), Len(s)))
    THEN trim_end(SubSeq(s, 1, Len(s) - 1))
    ELSE s

\* str::trim
trim(s) == trim_end(trim_start(s))

\* str::starts_with
starts_with(s, prefix) ==
    /\ Len(s) >= Len(prefix)
    /\ SubSeq(s, 1, Len(prefix)) = prefix

Digit(d) == SubSeq("0123456789", d + 1, d + 1)

\* Display for u8 / u16 / u32: decimal digits, no sign, no padding
RECURSIVE fmt_uint(_)
fmt_uint(n) ==
    IF n < 10 THEN Digit(n) ELSE fmt_uint(n \div 10) \o Digit(n % 10)

\* Display for f32, on a value of t tenths: the integer part, then the
\* fractional digit only when it is not zero ("1", "0.5", "0.3", "-0.5")
fmt_f32(t) ==
    LET a == IF t < 0 THEN 0 - t ELSE t
        whole == fmt_uint(a \div 10)
        frac == IF a % 10 = 0 THEN "" ELSE "." \o Digit(a % 10)
    IN  (IF t < 0 THEN "-" ELSE "") \o whole \o frac

\* f32::max and f32::min on tenths
f32_max(a, b) == IF a >= b THEN a ELSE b
f32_min(a, b) == IF a <= b THEN a ELSE b

---------------------------------------------------------------------------
(* variable.rs *)

\* Option<T>: None is the empty sequence, Some(x) the sequence <<x>>
None == <<>>
Some(x) == <<x>>

\* a faulty CssVar::new: prefixes without looking at the name
CssVar_new_always(name) == <<"--" \o trim(name)>>

\* struct CssVar(String): the one-field tuple <<name>>
CssVar_new(name) ==
    LET trimmed == trim(name)
        n == IF starts_with(trimmed, "--")
             THEN trimmed
             ELSE "--" \o trimmed
    IN  <<n>>

\* a faulty Display: writes a "--" of its own before the stored name
CssVar_fmt_doubled(self) == "var(--" \o self[1] \o ")"

\* impl Display for CssVar
CssVar_fmt(self) == "var(" \o self[1] \o ")"

var(name) == CssVar_new(name)

---------------------------------------------------------------------------
(* values.rs: a value is a record, `tag` naming its enum variant *)

Color_Blue == [tag |-> "Blue"]
Color_Red == [tag |-> "Red"]
Color_White == [tag |-> "White"]
Color_Black == [tag |-> "Black"]
Color_Transparent == [tag |-> "Transparent"]
Color_CurrentColor == [tag |-> "CurrentColor"]
Color_Inherit == [tag |-> "Inherit"]
Color_Rgb(r, g, b) == [tag |-> "Rgb", r |-> r, g |-> g, b |-> b]
Color_Rgba(r, g, b, a) == [tag |-> "Rgba", r |-> r, g |-> g, b |-> b, a |-> a]
Color_Hex(hex) == [tag |-> "Hex", hex |-> hex]
Color_Var(v) == [tag |-> "Var", var |-> v]

\* a faulty Display: the Hex arm writes a "#" whatever the string holds
Color_fmt_hash_always(self) ==
    CASE self.tag = "Black" -> "black"
      [] self.tag = "Blue" -> "blue"
      [] self.tag = "Red" -> "red"
      [] self.tag = "White" -> "white"
      [] self.tag = "Transparent" -> "transparent"
      [] self.tag = "Rgb" ->
            "rgb(" \o fmt_uint(self.r) \o ", " \o fmt_uint(self.g) \o ", "
                   \o fmt_uint(self.b) \o ")"
      [] self.tag = "Rgba" ->
            "rgba(" \o fmt_uint(self.r) \o ", " \o fmt_uint(self.g) \o ", "
                    \o fmt_uint(self.b) \o ", " \o fmt_f32(self.a) \o ")"
      [] self.tag = "Hex" ->
            LET hex_str == "#" \o self.hex
            IN  hex_str
      [] self.tag = "CurrentColor" -> "currentColor"
      [] self.tag = "Inherit" -> "inherit"
      [] self.tag = "Var" -> CssVar_fmt(self.var)

\* impl Display for Color (the named colours the model is driven with)
Color_fmt(self) ==
    CASE self.tag = "Black" -> "black"
      [] self.tag = "Blue" -> "blue"
      [] self.tag = "Red" -> "red"
      [] self.tag = "White" -> "white"
      [] self.tag = "Transparent" -> "transparent"
      [] self.tag = "Rgb" ->
            "rgb(" \o fmt_uint(self.r) \o ", " \o fmt_uint(self.g) \o ", "
                   \o fmt_uint(self.b) \o ")"
      [] self.tag = "Rgba" ->
            "rgba(" \o fmt_uint(self.r) \o ", " \o fmt_uint(self.g) \o ", "
                    \o fmt_uint(self.b) \o ", " \o fmt_f32(self.a) \o ")"
      [] self.tag = "Hex" ->
            LET hex_str == IF starts_with(self.hex, "#")
                           THEN self.hex
                           ELSE "#" \o self.hex
            IN  hex_str
      [] self.tag = "CurrentColor" -> "currentColor"
      [] self.tag = "Inherit" -> "inherit"
      [] self.tag = "Var" -> CssVar_fmt(self.var)

Size_Zero == [tag |-> "Zero"]
Size_Auto == [tag |-> "Auto"]
Size_Px(val) == [tag |-> "Px", val |-> val]
Size_Percent(val) == [tag |-> "Percent", val |-> val]
Size_Em(val) == [tag |-> "Em", val |-> val]
Size_Rem(val) == [tag |-> "Rem", val |-> val]
Size_Vw(val) == [tag |-> "Vw", val |-> val]
Size_Vh(val) == [tag |-> "Vh", val |-> val]
Size_Var(v) == [tag |-> "Var", var |-> v]

\* impl Display for Size
Size_fmt(self) ==
    CASE self.tag = "Zero" -> "0"
      [] self.tag = "Px" -> fmt_uint(self.val) \o "px"
      [] self.tag = "Percent" -> fmt_f32(self.val) \o "%"
      [] self.tag = "Em" -> fmt_f32(self.val) \o "em"
      [] self.tag = "Rem" -> fmt_f32(self.val) \o "rem"
      [] self.tag = "Vw" -> fmt_f32(self.val) \o "vw"
      [] self.tag = "Vh" -> fmt_f32(self.val) \o "vh"
      [] self.tag = "Auto" -> "auto"
      [] self.tag = "Var" -> CssVar_fmt(self.var)

BorderStyle_None == [tag |-> "None"]
BorderStyle_Solid == [tag |-> "Solid"]
BorderStyle_Dashed == [tag |-> "Dashed"]
BorderStyle_Dotted == [tag |-> "Dotted"]
BorderStyle_Double == [tag |-> "Double"]
BorderStyle_Groove == [tag |-> "Groove"]
BorderStyle_Ridge == [tag |-> "Ridge"]
BorderStyle_Inset == [tag |-> "Inset"]
BorderStyle_Outset == [tag |-> "Outset"]
BorderStyle_Var(v) == [tag |-> "Var", var |-> v]

\* impl Display for BorderStyle
BorderStyle_fmt(self) ==
    CASE self.tag = "None" -> "none"
      [] self.tag = "Solid" -> "solid"
      [] self.tag = "Dashed" -> "dashed"
      [] self.tag = "Dotted" -> "dotted"
      [] self.tag = "Double" -> "double"
      [] self.tag = "Groove" -> "groove"
      [] self.tag = "Ridge" -> "ridge"
      [] self.tag = "Inset" -> "inset"
      [] self.tag = "Outset" -> "outset"
      [] self.tag = "Var" -> CssVar_fmt(self.var)

\* Display for i32: a minus sign before a negative number
fmt_i32(n) == IF n < 0 THEN "-" \o fmt_uint(0 - n) ELSE fmt_uint(n)

\* impl Display for Display
Display_fmt(self) ==
    CASE self.tag = "None" -> "none"
      [] self.tag = "Block" -> "block"
      [] self.tag = "Inline" -> "inline"
      [] self.tag = "InlineBlock" -> "inline-block"
      [] self.tag = "Flex" -> "flex"
      [] self.tag = "Grid" -> "grid"
      [] self.tag = "Table" -> "table"
      [] self.tag = "Var" -> CssVar_fmt(self.var)

\* impl Display for Position
Position_fmt(self) ==
    CASE self.tag = "Static" -> "static"
      [] self.tag = "Relative" -> "relative"
      [] self.tag = "Absolute" -> "absolute"
      [] self.tag = "Fixed" -> "fixed"
      [] self.tag = "Sticky" -> "sticky"
      [] self.tag = "Var" -> CssVar_fmt(self.var)

\* impl Display for FlexDirection
FlexDirection_fmt(self) ==
    CASE self.tag = "Row" -> "row"
      [] self.tag = "RowReverse" -> "row-reverse"
      [] self.tag = "Column" -> "column"
      [] self.tag = "ColumnReverse" -> "column-reverse"
      [] self.tag = "Var" -> CssVar_fmt(self.var)

\* impl Display for JustifyContent
JustifyContent_fmt(self) ==
    CASE self.tag = "FlexStart" -> "flex-start"
      [] self.tag = "FlexEnd" -> "flex-end"
      [] self.tag = "Center" -> "center"
      [] self.tag = "SpaceBetween" -> "space-between"
      [] self.tag = "SpaceAround" -> "space-around"
      [] self.tag = "SpaceEvenly" -> "space-evenly"
      [] self.tag = "Var" -> CssVar_fmt(self.var)

\* a faulty Display for AlignItems: every multi-word keyword hyphenated
AlignItems_fmt_hyphenated(self) ==
    CASE self.tag = "Normal" -> "normal"
      [] self.tag = "Center" -> "center"
      [] self.tag = "Start" -> "start"
      [] self.tag = "End" -> "end"
      [] self.tag = "FlexStart" -> "flex-start"
      [] self.tag = "FlexEnd" -> "flex-end"
      [] self.tag = "SelfStart" -> "self-start"
      [] self.tag = "SelfEnd" -> "self-end"
      [] self.tag = "Baseline" -> "baseline"
      [] self.tag = "FirstBaseline" -> "first-baseline"
      [] self.tag = "LastBaseline" -> "last-baseline"
      [] self.tag = "Stretch" -> "stretch"
      [] self.tag = "AnchorCenter" -> "anchor-center"
      [] self.tag = "SafeCenter" -> "safe-center"
      [] self.tag = "UnsafeCenter" -> "unsafe-center"
      [] self.tag = "Inherit" -> "inherit"
      [] self.tag = "Initial" -> "initial"
      [] self.tag = "Revert" -> "revert"
      [] self.tag = "RevertLayer" -> "revert-layer"
      [] self.tag = "Unset" -> "unset"
      [] self.tag = "Var" -> CssVar_fmt(self.var)

\* impl Display for AlignItems
AlignItems_fmt(self) ==
    CASE self.tag = "Normal" -> "normal"
      [] self.tag = "Center" -> "center"
      [] self.tag = "Start" -> "start"
      [] self.tag = "End" -> "end"
      [] self.tag = "FlexStart" -> "flex-start"
      [] self.tag = "FlexEnd" -> "flex-end"
      [] self.tag = "SelfStart" -> "self-start"
      [] self.tag = "SelfEnd" -> "self-end"
      [] self.tag = "Baseline" -> "baseline"
      [] self.tag = "FirstBaseline" -> "first baseline"
      [] self.tag = "LastBaseline" -> "last baseline"
      [] self.tag = "Stretch" -> "stretch"
      [] self.tag = "AnchorCenter" -> "anchor-center"
      [] self.tag = "SafeCenter" -> "safe center"
      [] self.tag = "UnsafeCenter" -> "unsafe center"
      [] self.tag = "Inherit" -> "inherit"
      [] self.tag = "Initial" -> "initial"
      [] self.tag = "Revert" -> "revert"
      [] self.tag = "RevertLayer" -> "revert-layer"
      [] self.tag = "Unset" -> "unset"
      [] self.tag = "Var" -> CssVar_fmt(self.var)

\* impl Display for AlignContent
AlignContent_fmt(self) ==
    CASE self.tag = "Normal" -> "normal"
      [] self.tag = "Start" -> "start"
      [] self.tag = "Center" -> "center"
      [] self.tag = "End" -> "end"
      [] self.tag = "FlexStart" -> "flex-start"
      [] self.tag = "FlexEnd" -> "flex-end"
      [] self.tag = "Baseline" -> "baseline"
      [] self.tag = "FirstBaseline" -> "first baseline"
      [] self.tag = "LastBaseline" -> "last baseline"
      [] self.tag = "SpaceBetween" -> "space-between"
      [] self.tag = "SpaceAround" -> "space-around"
      [] self.tag = "SpaceEvenly" -> "space-evenly"
      [] self.tag = "Stretch" -> "stretch"
      [] self.tag = "SafeCenter" -> "safe center"
      [] self.tag = "UnsafeCenter" -> "unsafe center"
      [] self.tag = "Inherit" -> "inherit"
      [] self.tag = "Initial" -> "initial"
      [] self.tag = "Revert" -> "revert"
      [] self.tag = "RevertLayer" -> "revert-layer"
      [] self.tag = "Unset" -> "unset"
      [] self.tag = "Var" -> CssVar_fmt(self.var)

\* impl Display for TextAlign
TextAlign_fmt(self) ==
    CASE self.tag = "Left" -> "left"
      [] self.tag = "Right" -> "right"
      [] self.tag = "Center" -> "center"
      [] self.tag = "Justify" -> "justify"
      [] self.tag = "Start" -> "start"
      [] self.tag = "End" -> "end"
      [] self.tag = "Var" -> CssVar_fmt(self.var)

\* impl Display for TextDecoration
TextDecoration_fmt(self) ==
    CASE self.tag = "None" -> "none"
      [] self.tag = "Underline" -> "underline"
      [] self.tag = "Overline" -> "overline"
      [] self.tag = "LineThrough" -> "line-through"
      [] self.tag = "Var" -> CssVar_fmt(self.var)

\* impl Display for Overflow
Overflow_fmt(self) ==
    CASE self.tag = "Visible" -> "visible"
      [] self.tag = "Hidden" -> "hidden"
      [] self.tag = "Scroll" -> "scroll"
      [] self.tag = "Auto" -> "auto"
      [] self.tag = "Clip" -> "clip"
      [] self.tag = "Var" -> CssVar_fmt(self.var)

\* impl Display for Cursor
Cursor_fmt(self) ==
    CASE self.tag = "Default" -> "default"
      [] self.tag = "Pointer" -> "pointer"
      [] self.tag = "Text" -> "text"
      [] self.tag = "NotAllowed" -> "not-allowed"
      [] self.tag = "Wait" -> "wait"
      [] self.tag = "Move" -> "move"
      [] self.tag = "Grab" -> "grab"
      [] self.tag = "ZoomIn" -> "zoom-in"
      [] self.tag = "ZoomOut" -> "zoom-out"
      [] self.tag = "Var" -> CssVar_fmt(self.var)

\* impl Display for Visibility
Visibility_fmt(self) ==
    CASE self.tag = "Visible" -> "visible"
      [] self.tag = "Hidden" -> "hidden"
      [] self.tag = "Collapse" -> "collapse"
      [] self.tag = "Var" -> CssVar_fmt(self.var)

\* impl Display for FontSize
FontSize_fmt(self) ==
    CASE self.tag = "Smaller" -> "smaller"
      [] self.tag = "Larger" -> "larger"
      [] self.tag = "XxSmall" -> "xx-small"
      [] self.tag = "XSmall" -> "x-small"
      [] self.tag = "Small" -> "small"
      [] self.tag = "Medium" -> "medium"
      [] self.tag = "Large" -> "large"
      [] self.tag = "XLarge" -> "x-large"
      [] self.tag = "XxLarge" -> "xx-large"
      [] self.tag = "Px" -> fmt_uint(self.val) \o "px"
      [] self.tag = "Percent" -> fmt_f32(self.val) \o "%"
      [] self.tag = "Em" -> fmt_f32(self.val) \o "em"
      [] self.tag = "Rem" -> fmt_f32(self.val) \o "rem"
      [] self.tag = "Calc" -> "calc(" \o self.expr \o ")"
      [] self.tag = "Var" -> CssVar_fmt(self.var)

\* impl Display for LineHeight
LineHeight_fmt(self) ==
    CASE self.tag = "Normal" -> "normal"
      [] self.tag = "Number" -> fmt_f32(self.val)
      [] self.tag = "Length" -> Size_fmt(self.size)
      [] self.tag = "Percent" -> fmt_f32(self.val) \o "%"
      [] self.tag = "Calc" -> "calc(" \o self.expr \o ")"
      [] self.tag = "Var" -> CssVar_fmt(self.var)

\* a faulty Display: the Var arm writes the stored name, not 'var(...)'
ZIndex_fmt_name_only(self) ==
    CASE self.tag = "Auto" -> "auto"
      [] self.tag = "Index" -> fmt_i32(self.val)
      [] self.tag = "Var" -> self.var[1]

\* impl Display for ZIndex
ZIndex_fmt(self) ==
    CASE self.tag = "Auto" -> "auto"
      [] self.tag = "Index" -> fmt_i32(self.val)
      [] self.tag = "Var" -> CssVar_fmt(self.var)

FontWeight_Weight(w) == [tag |-> "Weight", w |-> w]

\* a faulty Display: writes any weight in 100..900, multiple of 100 or not
FontWeight_fmt_range_only(self) ==
    CASE self.tag = "Normal" -> "normal"
      [] self.tag = "Bold" -> "bold"
      [] self.tag = "Bolder" -> "bolder"
      [] self.tag = "Lighter" -> "lighter"
      [] self.tag = "Weight" ->
            IF self.w >= 100 /\ self.w <= 900
            THEN fmt_uint(self.w)
            ELSE "400"
      [] self.tag = "Var" -> CssVar_fmt(self.var)

\* impl Display for FontWeight
FontWeight_fmt(self) ==
    CASE self.tag = "Normal" -> "normal"
      [] self.tag = "Bold" -> "bold"
      [] self.tag = "Bolder" -> "bolder"
      [] self.tag = "Lighter" -> "lighter"
      [] self.tag = "Weight" ->
            IF self.w >= 100 /\ self.w <= 900 /\ self.w % 100 = 0
            THEN fmt_uint(self.w)
            ELSE "400"
      [] self.tag = "Var" -> CssVar_fmt(self.var)

\* struct BoxShadow
BoxShadow(h_offset, v_offset, blur, spread, color, inset) ==
    [h_offset |-> h_offset, v_offset |-> v_offset, blur |-> blur,
     spread |-> spread, color |-> color, inset |-> inset]

\* a Display that tells a spread from a blur: writes '0' for an absent blur
\* when a spread follows
BoxShadow_fmt_blur_placeholder(self) ==
    LET f0 == IF self.inset THEN "inset " ELSE ""
        f1 == f0 \o Size_fmt(self.h_offset) \o " " \o Size_fmt(self.v_offset)
        f2 == IF self.blur # None
              THEN f1 \o " " \o Size_fmt(self.blur[1])
              ELSE IF self.spread # None THEN f1 \o " 0" ELSE f1
        f3 == IF self.spread # None
              THEN f2 \o " " \o Size_fmt(self.spread[1])
              ELSE f2
        f4 == IF self.color # None
              THEN f3 \o " " \o Color_fmt(self.color[1])
              ELSE f3
    IN  f4

\* a faulty Display: writes the colour before the blur and the spread
BoxShadow_fmt_color_first(self) ==
    LET f0 == IF self.inset THEN "inset " ELSE ""
        f1 == f0 \o Size_fmt(self.h_offset) \o " " \o Size_fmt(self.v_offset)
        f2 == IF self.color # None
              THEN f1 \o " " \o Color_fmt(self.color[1])
              ELSE f1
        f3 == IF self.blur # None
              THEN f2 \o " " \o Size_fmt(self.blur[1])
              ELSE f2
        f4 == IF self.spread # None
              THEN f3 \o " " \o Size_fmt(self.spread[1])
              ELSE f3
    IN  f4

\* impl Display for BoxShadow: f0..f4 are what has been written after each
\* of its five steps
BoxShadow_fmt(self) ==
    LET f0 == IF self.inset THEN "inset " ELSE ""
        f1 == f0 \o Size_fmt(self.h_offset) \o " " \o Size_fmt(self.v_offset)
        f2 == IF self.blur # None
              THEN f1 \o " " \o Size_fmt(self.blur[1])
              ELSE f1
        f3 == IF self.spread # None
              THEN f2 \o " " \o Size_fmt(self.spread[1])
              ELSE f2
        f4 == IF self.color # None
              THEN f3 \o " " \o Color_fmt(self.color[1])
              ELSE f3
    IN  f4

\* struct Transition
Transition(property, duration, timing_function, delay) ==
    [property |-> property, duration |-> duration,
     timing_function |-> timing_function, delay |-> delay]

\* impl Display for Transition
Transition_fmt(self) ==
    LET f0 == self.property \o " " \o fmt_f32(self.duration) \o "s"
        f1 == IF self.timing_function # None
              THEN f0 \o " " \o self.timing_function[1]
              ELSE f0
        f2 == IF self.delay # None
              THEN f1 \o " " \o fmt_f32(self.delay[1]) \o "s"
              ELSE f1
    IN  f2

\* the keyword variants each enum of keywords declares (all but Var)
Variants(T) ==
    CASE T = "Display" ->
            {"None", "Block", "Inline", "InlineBlock", "Flex", "Grid",
            "Table"}
      [] T = "Position" ->
            {"Static", "Relative", "Absolute", "Fixed", "Sticky"}
      [] T = "FlexDirection" ->
            {"Row", "RowReverse", "Column", "ColumnReverse"}
      [] T = "JustifyContent" ->
            {"FlexStart", "FlexEnd", "Center", "SpaceBetween", "SpaceAround",
            "SpaceEvenly"}
      [] T = "AlignItems" ->
            {"Normal", "Center", "Start", "End", "FlexStart", "FlexEnd",
            "SelfStart", "SelfEnd", "Baseline", "FirstBaseline",
            "LastBaseline", "Stretch", "AnchorCenter", "SafeCenter",
            "UnsafeCenter", "Inherit", "Initial", "Revert", "RevertLayer",
            "Unset"}
      [] T = "AlignContent" ->
            {"Normal", "Start", "Center", "End", "FlexStart", "FlexEnd",
            "Baseline", "FirstBaseline", "LastBaseline", "SpaceBetween",
            "SpaceAround", "SpaceEvenly", "Stretch", "SafeCenter",
            "UnsafeCenter", "Inherit", "Initial", "Revert", "RevertLayer",
            "Unset"}
      [] T = "TextAlign" ->
            {"Left", "Right", "Center", "Justify", "Start", "End"}
      [] T = "TextDecoration" ->
            {"None", "Underline", "Overline", "LineThrough"}
      [] T = "Overflow" ->
            {"Visible", "Hidden", "Scroll", "Auto", "Clip"}
      [] T = "Cursor" ->
            {"Default", "Pointer", "Text", "NotAllowed", "Wait", "Move",
            "Grab", "ZoomIn", "ZoomOut"}
      [] T = "Visibility" ->
            {"Visible", "Hidden", "Collapse"}
      [] T = "BorderStyle" ->
            {"None", "Solid", "Dashed", "Dotted", "Double", "Groove", "Ridge",
            "Inset", "Outset"}

\* the value types of values.rs: the enums, then the two structs
ValueTypes ==
    {"Color", "Size", "Display", "Position", "FlexDirection",
     "JustifyContent", "AlignItems", "FontWeight", "TextAlign",
     "TextDecoration", "Overflow", "Cursor", "Visibility", "BorderStyle",
     "ZIndex", "FontSize", "AlignContent", "LineHeight", "BoxShadow",
     "Transition"}

\* the types T with an `impl From<CssVar> for T`, in the order of the impls
ImplFromCssVar ==
    {"Color", "Size", "Display", "Position", "FlexDirection",
     "JustifyContent", "AlignItems", "FontWeight", "TextAlign",
     "TextDecoration", "Overflow", "Cursor", "Visibility", "BorderStyle",
     "ZIndex", "FontSize", "AlignContent", "LineHeight"}

\* <T as From<CssVar>>::from(v), for T in ImplFromCssVar: the body of
\* every one of the impls is T::Var(var)
from(T, v) == [tag |-> "Var", var |-> v]

\* v.into() where a T is expected: Rust resolves it to T::from(v) when the
\* impl exists; without one the expression has no value (it is rejected at
\* compile time), which None stands for
into(T, v) == IF T \in ImplFromCssVar THEN Some(from(T, v)) ELSE None

\* value.to_string() for a value of type T
Value_fmt(T, value) ==
    CASE T = "Color" -> Color_fmt(value)
      [] T = "Size" -> Size_fmt(value)
      [] T = "Display" -> Display_fmt(value)
      [] T = "Position" -> Position_fmt(value)
      [] T = "FlexDirection" -> FlexDirection_fmt(value)
      [] T = "JustifyContent" -> JustifyContent_fmt(value)
      [] T = "AlignItems" -> AlignItems_fmt(value)
      [] T = "FontWeight" -> FontWeight_fmt(value)
      [] T = "TextAlign" -> TextAlign_fmt(value)
      [] T = "TextDecoration" -> TextDecoration_fmt(value)
      [] T = "Overflow" -> Overflow_fmt(value)
      [] T = "Cursor" -> Cursor_fmt(value)
      [] T = "Visibility" -> Visibility_fmt(value)
      [] T = "BorderStyle" -> BorderStyle_fmt(value)
      [] T = "ZIndex" -> ZIndex_fmt(value)
      [] T = "FontSize" -> FontSize_fmt(value)
      [] T = "AlignContent" -> AlignContent_fmt(value)
      [] T = "LineHeight" -> LineHeight_fmt(value)
      [] T = "BoxShadow" -> BoxShadow_fmt(value)
      [] T = "Transition" -> Transition_fmt(value)

\* impl Display for str / String
str_fmt(self) == self

---------------------------------------------------------------------------
(* properties.rs *)

\* Property::new<T: Display>(name, value).  `value` arrives here already
\* rendered: the caller applies T's Display (the X_fmt operator of the
\* value's type), which is what value.to_string() does inside new().
Property_new(name, value) ==
    [name |-> name, value |-> value]

\* a faulty Display: no space after the colon
Property_fmt_tight(self) == self.name \o ":" \o self.value \o ";"

\* impl Display for Property (properties.rs)
Property_fmt(self) == self.name \o ": " \o self.value \o ";"

\* impl Display for Property (properties/mod.rs, the per-property modules)
mod_Property_fmt(self) == self.name \o ": " \o self.value \o ";"

\* color::color
color_color(value) == Property_new("color", Color_fmt(value))

\* size::width
size_width(value) == Property_new("width", Size_fmt(value))

\* a faulty border::border: the style formatted before the width
border_border_style_first(width, style, color) ==
    Property_new("border",
                 BorderStyle_fmt(style) \o " " \o Size_fmt(width) \o " "
                     \o Color_fmt(color))

\* border::border
border_border(width, style, color) ==
    Property_new("border",
                 Size_fmt(width) \o " " \o BorderStyle_fmt(style) \o " "
                     \o Color_fmt(color))

\* border::border_top, border_right, border_bottom, border_left, each of
\* (width, style, color): style.rs calls them, no source file defines them.
\* They are written from the specification's "Directional border:
\* border_top(Px(1), Solid, Red) -> 'border-top: 1px solid red;'", the
\* way border::border above is.
border_border_top(width, style, color) ==
    Property_new("border-top",
                 Size_fmt(width) \o " " \o BorderStyle_fmt(style) \o " "
                     \o Color_fmt(color))

border_border_right(width, style, color) ==
    Property_new("border-right",
                 Size_fmt(width) \o " " \o BorderStyle_fmt(style) \o " "
                     \o Color_fmt(color))

border_border_bottom(width, style, color) ==
    Property_new("border-bottom",
                 Size_fmt(width) \o " " \o BorderStyle_fmt(style) \o " "
                     \o Color_fmt(color))

border_border_left(width, style, color) ==
    Property_new("border-left",
                 Size_fmt(width) \o " " \o BorderStyle_fmt(style) \o " "
                     \o Color_fmt(color))

\* a checked layout::opacity: an out-of-range value is an error, no Property
layout_opacity_checked(value) ==
    IF value < 0 \/ value > 10
    THEN None
    ELSE Property_new("opacity", fmt_f32(value))

\* a faulty opacity: bounds the value from above only
layout_opacity_upper_only(value) ==
    LET clamped == f32_min(value, 10)
    IN  Property_new("opacity", fmt_f32(clamped))

\* layout::opacity
layout_opacity(value) ==
    LET clamped == f32_min(f32_max(value, 0), 10)
    IN  Property_new("opacity", fmt_f32(clamped))

\* display::align_items
display_align_items(value) ==
    Property_new("align-items", AlignItems_fmt(value))

\* font::font_size_enum
font_font_size_enum(value) ==
    Property_new("font-size", FontSize_fmt(value))

\* transition::transition
transition_transition(value) ==
    Property_new("transition", Transition_fmt(value))

\* transition::transition_all pushing the delay before the timing function
transition_transition_all_delay_first(duration, timing_function, delay) ==
    LET value0 == "all " \o fmt_f32(duration) \o "s"
        value1 == IF delay # None
                  THEN value0 \o " " \o fmt_f32(delay[1]) \o "s"
                  ELSE value0
        value2 == IF timing_function # None
                  THEN value1 \o " " \o str_fmt(timing_function[1])
                  ELSE value1
    IN  Property_new("transition", str_fmt(value2))

\* transition::transition_all
transition_transition_all(duration, timing_function, delay) ==
    LET value0 == "all " \o fmt_f32(duration) \o "s"
        value1 == IF timing_function # None
                  THEN value0 \o " " \o str_fmt(timing_function[1])
                  ELSE value0
        value2 == IF delay # None
                  THEN value1 \o " " \o fmt_f32(delay[1]) \o "s"
                  ELSE value1
    IN  Property_new("transition", str_fmt(value2))

---------------------------------------------------------------------------
(* properties/border.rs, border_top.rs, border_right.rs, border_bottom.rs,
   border_left.rs; an operator of module m is named mod_m_<function> *)

\* [String]::join
RECURSIVE join(_, _)
join(parts, sep) ==
    IF parts = <<>> THEN ""
    ELSE IF Len(parts) = 1 THEN parts[1]
    ELSE parts[1] \o sep \o join(Tail(parts), sep)

\* struct BorderValue
BorderValue(width, style, color) ==
    [width |-> width, style |-> style, color |-> color]

\* impl Display for BorderValue
BorderValue_fmt(self) ==
    LET parts0 == IF self.width # None
                  THEN <<Size_fmt(self.width[1])>>
                  ELSE <<>>
        parts1 == Append(parts0, BorderStyle_fmt(self.style))
        parts2 == IF self.color # None
                  THEN Append(parts1, Color_fmt(self.color[1]))
                  ELSE parts1
    IN  join(parts2, " ")

mod_border_border(style) ==
    Property_new("border", BorderValue_fmt(BorderValue(None, style, None)))

mod_border_border_with_width(width, style) ==
    Property_new("border", BorderValue_fmt(BorderValue(Some(width), style, None)))

mod_border_border_with_color(style, color) ==
    Property_new("border", BorderValue_fmt(BorderValue(None, style, Some(color))))

mod_border_border_with_width_and_color(width, style, color) ==
    Property_new("border",
                 BorderValue_fmt(BorderValue(Some(width), style, Some(color))))

\* struct BorderTopValue
BorderTopValue(width, style, color) ==
    [width |-> width, style |-> style, color |-> color]

\* a faulty Display: an absent width or colour is pushed as an empty part
BorderTopValue_fmt_placeholder(self) ==
    LET parts0 == <<IF self.width # None THEN Size_fmt(self.width[1]) ELSE "">>
        parts1 == Append(parts0, BorderStyle_fmt(self.style))
        parts2 == Append(parts1, IF self.color # None
                                 THEN Color_fmt(self.color[1])
                                 ELSE "")
    IN  join(parts2, " ")

\* impl Display for BorderTopValue
BorderTopValue_fmt(self) ==
    LET parts0 == IF self.width # None
                  THEN <<Size_fmt(self.width[1])>>
                  ELSE <<>>
        parts1 == Append(parts0, BorderStyle_fmt(self.style))
        parts2 == IF self.color # None
                  THEN Append(parts1, Color_fmt(self.color[1]))
                  ELSE parts1
    IN  join(parts2, " ")

mod_border_top_border_top(style) ==
    Property_new("border-top", BorderTopValue_fmt(BorderTopValue(None, style, None)))

mod_border_top_border_top_with_width(width, style) ==
    Property_new("border-top", BorderTopValue_fmt(BorderTopValue(Some(width), style, None)))

mod_border_top_border_top_with_color(style, color) ==
    Property_new("border-top", BorderTopValue_fmt(BorderTopValue(None, style, Some(color))))

mod_border_top_border_top_with_width_and_color(width, style, color) ==
    Property_new("border-top",
                 BorderTopValue_fmt(BorderTopValue(Some(width), style, Some(color))))

\* struct BorderRightValue
BorderRightValue(width, style, color) ==
    [width |-> width, style |-> style, color |-> color]

\* impl Display for BorderRightValue
BorderRightValue_fmt(self) ==
    LET parts0 == IF self.width # None
                  THEN <<Size_fmt(self.width[1])>>
                  ELSE <<>>
        parts1 == Append(parts0, BorderStyle_fmt(self.style))
        parts2 == IF self.color # None
                  THEN Append(parts1, Color_fmt(self.color[1]))
                  ELSE parts1
    IN  join(parts2, " ")

mod_border_right_border_right(style) ==
    Property_new("border-right", BorderRightValue_fmt(BorderRightValue(None, style, None)))

mod_border_right_border_right_with_width(width, style) ==
    Property_new("border-right", BorderRightValue_fmt(BorderRightValue(Some(width), style, None)))

mod_border_right_border_right_with_color(style, color) ==
    Property_new("border-right", BorderRightValue_fmt(BorderRightValue(None, style, Some(color))))

mod_border_right_border_right_with_width_and_color(width, style, color) ==
    Property_new("border-right",
                 BorderRightValue_fmt(BorderRightValue(Some(width), style, Some(color))))

\* struct BorderBottomValue
BorderBottomValue(width, style, color) ==
    [width |-> width, style |-> style, color |-> color]

\* impl Display for BorderBottomValue
BorderBottomValue_fmt(self) ==
    LET parts0 == IF self.width # None
                  THEN <<Size_fmt(self.width[1])>>
                  ELSE <<>>
        parts1 == Append(parts0, BorderStyle_fmt(self.style))
        parts2 == IF self.color # None
                  THEN Append(parts1, Color_fmt(self.color[1]))
                  ELSE parts1
    IN  join(parts2, " ")

mod_border_bottom_border_bottom(style) ==
    Property_new("border-bottom", BorderBottomValue_fmt(BorderBottomValue(None, style, None)))

mod_border_bottom_border_bottom_with_width(width, style) ==
    Property_new("border-bottom", BorderBottomValue_fmt(BorderBottomValue(Some(width), style, None)))

mod_border_bottom_border_bottom_with_color(style, color) ==
    Property_new("border-bottom", BorderBottomValue_fmt(BorderBottomValue(None, style, Some(color))))

mod_border_bottom_border_bottom_with_width_and_color(width, style, color) ==
    Property_new("border-bottom",
                 BorderBottomValue_fmt(BorderBottomValue(Some(width), style, Some(color))))

\* struct BorderLeftValue
BorderLeftValue(width, style, color) ==
    [width |-> width, style |-> style, color |-> color]

\* impl Display for BorderLeftValue
BorderLeftValue_fmt(self) ==
    LET parts0 == IF self.width # None
                  THEN <<Size_fmt(self.width[1])>>
                  ELSE <<>>
        parts1 == Append(parts0, BorderStyle_fmt(self.style))
        parts2 == IF self.color # None
                  THEN Append(parts1, Color_fmt(self.color[1]))
                  ELSE parts1
    IN  join(parts2, " ")

mod_border_left_border_left(style) ==
    Property_new("border-left", BorderLeftValue_fmt(BorderLeftValue(None, style, None)))

mod_border_left_border_left_with_width(width, style) ==
    Property_new("border-left", BorderLeftValue_fmt(BorderLeftValue(Some(width), style, None)))

mod_border_left_border_left_with_color(style, color) ==
    Property_new("border-left", BorderLeftValue_fmt(BorderLeftValue(None, style, Some(color))))

mod_border_left_border_left_with_width_and_color(width, style, color) ==
    Property_new("border-left",
                 BorderLeftValue_fmt(BorderLeftValue(Some(width), style, Some(color))))

\* the five modules, and m::m(style) .. m::m_with_width_and_color(width,
\* style, color) for a module m of them
BorderModules ==
    {"border", "border_top", "border_right", "border_bottom", "border_left"}

shorthand(m, style) ==
    CASE m = "border" -> mod_border_border(style)
      [] m = "border_top" -> mod_border_top_border_top(style)
      [] m = "border_right" -> mod_border_right_border_right(style)
      [] m = "border_bottom" -> mod_border_bottom_border_bottom(style)
      [] m = "border_left" -> mod_border_left_border_left(style)

shorthand_with_width(m, width, style) ==
    CASE m = "border" -> mod_border_border_with_width(width, style)
      [] m = "border_top" -> mod_border_top_border_top_with_width(width, style)
      [] m = "border_right" -> mod_border_right_border_right_with_width(width, style)
      [] m = "border_bottom" -> mod_border_bottom_border_bottom_with_width(width, style)
      [] m = "border_left" -> mod_border_left_border_left_with_width(width, style)

shorthand_with_color(m, style, color) ==
    CASE m = "border" -> mod_border_border_with_color(style, color)
      [] m = "border_top" -> mod_border_top_border_top_with_color(style, color)
      [] m = "border_right" -> mod_border_right_border_right_with_color(style, color)
      [] m = "border_bottom" -> mod_border_bottom_border_bottom_with_color(style, color)
      [] m = "border_left" -> mod_border_left_border_left_with_color(style, color)

shorthand_with_width_and_color(m, width, style, color) ==
    CASE m = "border" -> mod_border_border_with_width_and_color(width, style, color)
      [] m = "border_top" -> mod_border_top_border_top_with_width_and_color(width, style, color)
      [] m = "border_right" -> mod_border_right_border_right_with_width_and_color(width, style, color)
      [] m = "border_bottom" -> mod_border_bottom_border_bottom_with_width_and_color(width, style, color)
      [] m = "border_left" -> mod_border_left_border_left_with_width_and_color(width, style, color)

\* properties/align_content.rs: align_content::align_content
mod_align_content_align_content(value) ==
    Property_new("align-content", AlignContent_fmt(value))

---------------------------------------------------------------------------
(* style.rs: the methods of Style, as functions of the `properties` vector *)

\* Style::new
Style_new == <<>>

\* a faulty add_property: a Property of a name already stored replaces it
add_property_dedup(self, property) ==
    IF \E i \in DOMAIN self : self[i].name = property.name
    THEN [i \in DOMAIN self |->
             IF self[i].name = property.name THEN property ELSE self[i]]
    ELSE Append(self, property)

\* a faulty add_property: inserts at the front of the vector
add_property_front(self, property) == <<property>> \o self

\* Style::add_property: self.properties.push(property)
add_property(self, property) == Append(self, property)

\* impl Display for Style: the loop over self.properties.iter().enumerate(),
\* `i` the enumerate index and `f` what has been written so far
\* a faulty loop: the separator is skipped before the second Property too
RECURSIVE Style_fmt_loop_late(_, _, _)
Style_fmt_loop_late(self, i, f) ==
    IF i >= Len(self)
    THEN f
    ELSE LET f1 == IF i > 1 THEN f \o " " ELSE f
             f2 == f1 \o Property_fmt(self[i + 1])
         IN  Style_fmt_loop_late(self, i + 1, f2)

\* a faulty loop: the separator is written after every Property
RECURSIVE Style_fmt_loop_trailing(_, _, _)
Style_fmt_loop_trailing(self, i, f) ==
    IF i >= Len(self)
    THEN f
    ELSE Style_fmt_loop_trailing(self, i + 1,
                                 f \o Property_fmt(self[i + 1]) \o " ")

RECURSIVE Style_fmt_loop(_, _, _)
Style_fmt_loop(self, i, f) ==
    IF i >= Len(self)
    THEN f
    ELSE LET f1 == IF i > 0 THEN f \o " " ELSE f
             f2 == f1 \o Property_fmt(self[i + 1])
         IN  Style_fmt_loop(self, i + 1, f2)

Style_fmt(self) == Style_fmt_loop(self, 0, "")

\* Style::apply: self.to_string()
apply(self) == Style_fmt(self)

\* a faulty build(): wraps the declarations in a rule block
build_block(self) == "{ " \o Style_fmt(self) \o " }"

\* Style::build: self.apply()
build(self) == apply(self)

\* a faulty custom_property: normalises the name as set_var does
custom_property_normalising(self, name, value) ==
    LET var_name == IF starts_with(trim(name), "--")
                    THEN trim(name)
                    ELSE "--" \o trim(name)
    IN  add_property(self, Property_new(var_name, value))

\* Style::custom_property (value rendered by the caller, see Property_new)
custom_property(self, name, value) ==
    add_property(self, Property_new(name, value))

\* a faulty set_var: tests the trimmed name but prefixes the untrimmed one
set_var_untrimmed(self, name, value) ==
    LET var_name == IF starts_with(trim(name), "--")
                    THEN trim(name)
                    ELSE "--" \o name
    IN  add_property(self, Property_new(var_name, value))

\* a faulty set_var: trims the name but never prefixes it
set_var_bare(self, name, value) ==
    custom_property(self, trim(name), value)

\* Style::set_var
set_var(self, name, value) ==
    LET var_name == IF starts_with(trim(name), "--")
                    THEN trim(name)
                    ELSE "--" \o trim(name)
    IN  custom_property(self, var_name, value)

\* Style::color
color(self, value) == add_property(self, color_color(value))

\* Style::width
width(self, value) == add_property(self, size_width(value))

\* Style::border
border(self, w, style, c) == add_property(self, border_border(w, style, c))

\* a faulty border_top: calls the constructor of the plain border shorthand
border_top_as_border(self, w, style, c) ==
    add_property(self, border_border(w, style, c))

\* Style::border_top
border_top(self, w, style, c) ==
    add_property(self, border_border_top(w, style, c))

\* Style::border_right
border_right(self, w, style, c) ==
    add_property(self, border_border_right(w, style, c))

\* Style::border_bottom
border_bottom(self, w, style, c) ==
    add_property(self, border_border_bottom(w, style, c))

\* Style::border_left
border_left(self, w, style, c) ==
    add_property(self, border_border_left(w, style, c))

\* Style::align_items
align_items(self, value) == add_property(self, display_align_items(value))

\* Style::font_size_enum
font_size_enum(self, value) ==
    add_property(self, font_font_size_enum(value))

\* a faulty Style::opacity: logic of its own, dropping an out-of-range value
opacity_rejecting(self, value) ==
    IF value < 0 \/ value > 10
    THEN self
    ELSE add_property(self, layout_opacity(value))

\* Style::opacity
opacity(self, value) == add_property(self, layout_opacity(value))

\* Style::transition_all
transition_all(self, duration, timing_function, delay) ==
    add_property(self,
                 transition_transition_all(duration, timing_function, delay))

\* the methods impl Style declares
StyleMethods ==
    {"new", "add_property", "apply", "build", "custom_property", "set_var",
     "color", "background_color", "border_color", "width", "height",
     "margin", "margin_top", "margin_right", "margin_bottom", "margin_left",
     "padding", "padding_top", "padding_right", "padding_bottom",
     "padding_left", "font_size", "line_height", "border_width", "display",
     "position", "flex_direction", "justify_content", "align_items",
     "font_weight", "font_family", "text_align", "font_size_enum",
     "line_height_enum", "text_decoration", "border_style", "border_radius",
     "border", "border_top", "border_right", "border_bottom", "border_left",
     "box_shadow", "box_shadow_none", "top", "right", "bottom", "left",
     "z_index", "overflow", "overflow_x", "overflow_y", "visibility",
     "opacity", "cursor", "gap", "row_gap", "column_gap",
     "grid_template_columns", "grid_template_rows", "transition",
     "transition_none", "transition_all", "max_width", "min_width",
     "max_height", "min_height"}

\* self.m(value), m naming a method that takes one typed value: Rust
\* resolves it to the method of that name in impl Style and the Style is
\* left as that method leaves it; where impl Style declares no such method
\* the expression has no value (it is rejected at compile time), which None
\* stands for
method_call(m, self, value) ==
    CASE m \notin StyleMethods -> None
      [] m = "color" -> Some(color(self, value))
      [] m = "width" -> Some(width(self, value))
      [] m = "align_items" -> Some(align_items(self, value))
      [] m = "font_size_enum" -> Some(font_size_enum(self, value))
      [] m = "opacity" -> Some(opacity(self, value))

---------------------------------------------------------------------------
(* The arguments the builder is driven with *)

\* variable names: bare, already prefixed, and padded with whitespace
VarNames == {"primary-color", "--x", " x "}

AddPropertyInputs == {Property_new("font-size", str_fmt("16px"))}
CustomNames == {"color"}
CustomStrs == {"blue"}
ColorInputs == {Color_Red, Color_Hex("fff")}
WidthInputs == {Size_Percent(1000)}
BorderInputs == {<<Size_Px(1), BorderStyle_Solid, Color_Hex("000")>>}
OpacityInputs == {15}
TransitionAllInputs == {<<3, Some("ease"), None>>}

RenderOps == {"apply", "build"}

\* the entry a mutating call leaves in the call log: the method, the
\* variable name it was given (if any; for a directional border method, its
\* (width, style, color) arguments) and the Property its constructor made
Call(op, v, prop) == [op |-> op, var |-> v, prop |-> prop]

\* the Properties of the calls made so far, in call order
Appended == [i \in 1..Len(calls) |-> calls[i].prop]

\* what a render call leaves in `returned`: the number of mutating calls
\* made before it and the string it returned; the caller keeps the two
\* latest results
Returned(text) ==
    LET r == [at |-> Len(calls), text |-> text]
    IN  IF Len(returned) < 2
        THEN Append(returned, r)
        ELSE <<returned[2], r>>

Mutated(op, v, prop) ==
    /\ calls' = Append(calls, Call(op, v, prop))
    /\ lastOp' = op
    /\ UNCHANGED <<returned, evaluation>>

---------------------------------------------------------------------------
(* One action per builder method *)

Init ==
    /\ properties = Style_new
    /\ calls = <<>>
    /\ returned = <<>>
    /\ lastOp = "new"
    /\ evaluation = None

AddProperty ==
    \E property \in AddPropertyInputs :
        /\ Len(calls) < MaxProps
        /\ properties' = add_property(properties, property)
        /\ Mutated("add_property", None, property)

CustomProperty ==
    \E name \in CustomNames :
        \/ \E value \in CustomStrs :
              /\ Len(calls) < MaxProps
              /\ properties' = custom_property(properties, name, str_fmt(value))
              /\ Mutated("custom_property", None,
                         Property_new(name, str_fmt(value)))
        \/ \E n \in VarNames :
              /\ Len(calls) < MaxProps
              /\ properties' =
                     custom_property(properties, name, CssVar_fmt(var(n)))
              /\ Mutated("custom_property", Some(n),
                         Property_new(name, CssVar_fmt(var(n))))

SetVar ==
    \E name \in VarNames, value \in {Color_Blue} :
        /\ Len(calls) < MaxProps
        /\ properties' = set_var(properties, name, Color_fmt(value))
        /\ Mutated("set_var", Some(name),
                   Property_new(CssVar_new(name)[1], Color_fmt(value)))

Color ==
    \E value \in ColorInputs :
        /\ Len(calls) < MaxProps
        /\ properties' = color(properties, value)
        /\ Mutated("color", None, color_color(value))

Width ==
    \E value \in WidthInputs :
        /\ Len(calls) < MaxProps
        /\ properties' = width(properties, value)
        /\ Mutated("width", None, size_width(value))

Border ==
    \E a \in BorderInputs :
        /\ Len(calls) < MaxProps
        /\ properties' = border(properties, a[1], a[2], a[3])
        /\ Mutated("border", None, border_border(a[1], a[2], a[3]))

Opacity ==
    \E value \in OpacityInputs :
        /\ Len(calls) < MaxProps
        /\ properties' = opacity(properties, value)
        /\ Mutated("opacity", None, layout_opacity(value))

TransitionAll ==
    \E a \in TransitionAllInputs :
        /\ Len(calls) < MaxProps
        /\ properties' = transition_all(properties, a[1], a[2], a[3])
        /\ Mutated("transition_all", None,
                   transition_transition_all(a[1], a[2], a[3]))

\* a faulty apply(): takes the vector out of the Style while rendering it
Apply_taking ==
    /\ returned' = Returned(apply(properties))
    /\ lastOp' = "apply"
    /\ properties' = <<>>
    /\ UNCHANGED <<calls, evaluation>>

Apply ==
    /\ returned' = Returned(apply(properties))
    /\ lastOp' = "apply"
    /\ UNCHANGED <<properties, calls, evaluation>>

Build ==
    /\ returned' = Returned(build(properties))
    /\ lastOp' = "build"
    /\ UNCHANGED <<properties, calls, evaluation>>

Next ==
    \/ AddProperty
    \/ CustomProperty
    \/ SetVar
    \/ Color
    \/ Width
    \/ Border
    \/ Opacity
    \/ TransitionAll
    \/ Apply
    \/ Build

Spec == Init /\ [][Next]_vars

---------------------------------------------------------------------------
(* The builder driven with the directional border methods *)

\* (width, style, color) arguments, after tests.rs and the example program
DirectionalInputs ==
    {<<Size_Px(1), BorderStyle_Solid, Color_Red>>,
     <<Size_Px(3), BorderStyle_Dashed, Color_Blue>>}

BorderTop ==
    \E a \in DirectionalInputs :
        /\ Len(calls) < MaxProps
        /\ properties' = border_top(properties, a[1], a[2], a[3])
        /\ Mutated("border_top", Some(a),
                   border_border_top(a[1], a[2], a[3]))

BorderRight ==
    \E a \in DirectionalInputs :
        /\ Len(calls) < MaxProps
        /\ properties' = border_right(properties, a[1], a[2], a[3])
        /\ Mutated("border_right", Some(a),
                   border_border_right(a[1], a[2], a[3]))

BorderBottom ==
    \E a \in DirectionalInputs :
        /\ Len(calls) < MaxProps
        /\ properties' = border_bottom(properties, a[1], a[2], a[3])
        /\ Mutated("border_bottom", Some(a),
                   border_border_bottom(a[1], a[2], a[3]))

BorderLeft ==
    \E a \in DirectionalInputs :
        /\ Len(calls) < MaxProps
        /\ properties' = border_left(properties, a[1], a[2], a[3])
        /\ Mutated("border_left", Some(a),
                   border_border_left(a[1], a[2], a[3]))

BorderNext ==
    \/ BorderTop
    \/ BorderRight
    \/ BorderBottom
    \/ BorderLeft
    \/ Apply
    \/ Build

BorderSpec == Init /\ [][BorderNext]_vars

---------------------------------------------------------------------------
(* The functions that take no Style, called on their own *)

\* the longest variable name tried
MaxNameLen == 4

\* the characters of the names tried: a dash, whitespace, a letter
NameChars == {"-", " ", "x"}

\* every string of at most n of the given characters
RECURSIVE StringsOver(_, _)
StringsOver(chars, n) ==
    IF n = 0
    THEN {""}
    ELSE LET shorter == StringsOver(chars, n - 1)
         IN  shorter \cup {s \o c : s \in shorter, c \in chars}

Names == StringsOver(NameChars, MaxNameLen)

\* a call of fn on arg returned out
Evaluated(fn, arg, out) ==
    /\ evaluation' = Some([fn |-> fn, arg |-> arg, out |-> out])
    /\ UNCHANGED <<properties, calls, returned, lastOp>>

\* One action per function; each behaviour follows one call.

\* CssVar::new(name)
CssVarNew ==
    /\ evaluation = None
    /\ \E name \in Names :
          Evaluated("CssVar::new", name, CssVar_new(name))

\* var(name).to_string()
CssVarFmt ==
    /\ evaluation = None
    /\ \E name \in Names :
          Evaluated("CssVar::fmt", name, CssVar_fmt(var(name)))

\* var(name).into() where a T is expected, then to_string()
IntoValue ==
    /\ evaluation = None
    /\ \E T \in ValueTypes, name \in VarNames :
          LET converted == into(T, var(name))
          IN  Evaluated("From<CssVar>", <<T, name>>,
                        IF converted = None
                        THEN None
                        ELSE Some(Value_fmt(T, converted[1])))

\* the components the border shorthands are given
ShorthandWidths == {Size_Px(1), Size_Em(15), Size_Var(var("w"))}
ShorthandStyles == {BorderStyle_Solid, BorderStyle_Dashed, BorderStyle_None}
ShorthandColors == {Color_Red, Color_Hex("000"), Color_Rgb(255, 0, 0)}

\* what a shorthand call was given: its module and the components
Shorthand(m, w, style, c) ==
    [module |-> m, width |-> w, style |-> style, color |-> c]

\* m::m(style)
BorderStyleOnly ==
    /\ evaluation = None
    /\ \E m \in BorderModules, style \in ShorthandStyles :
          Evaluated("shorthand", Shorthand(m, None, style, None),
                    shorthand(m, style))

\* m::m_with_width(width, style)
BorderWithWidth ==
    /\ evaluation = None
    /\ \E m \in BorderModules, w \in ShorthandWidths,
          style \in ShorthandStyles :
          Evaluated("shorthand", Shorthand(m, Some(w), style, None),
                    shorthand_with_width(m, w, style))

\* m::m_with_color(style, color)
BorderWithColor ==
    /\ evaluation = None
    /\ \E m \in BorderModules, style \in ShorthandStyles,
          c \in ShorthandColors :
          Evaluated("shorthand", Shorthand(m, None, style, Some(c)),
                    shorthand_with_color(m, style, c))

\* m::m_with_width_and_color(width, style, color)
BorderWithWidthAndColor ==
    /\ evaluation = None
    /\ \E m \in BorderModules, w \in ShorthandWidths,
          style \in ShorthandStyles, c \in ShorthandColors :
          Evaluated("shorthand", Shorthand(m, Some(w), style, Some(c)),
                    shorthand_with_width_and_color(m, w, style, c))

\* the largest u16: FontWeight::Weight holds a u16
U16_MAX == 65535

\* FontWeight::Weight(w).to_string()
FontWeightFmt ==
    /\ evaluation = None
    /\ \E w \in 0..U16_MAX :
          Evaluated("FontWeight::fmt", w, FontWeight_fmt(FontWeight_Weight(w)))

\* the largest opacity tried, in tenths (2.0), and the smallest its negation
MaxOpacity == 20

\* layout::opacity(value)
LayoutOpacity ==
    /\ evaluation = None
    /\ \E value \in (0 - MaxOpacity)..MaxOpacity :
          Evaluated("layout::opacity", value, layout_opacity(value))

\* the longest hex string tried, and the characters of the strings tried
MaxHexLen == 4
HexChars == {"#", "f", " "}
HexStrings == StringsOver(HexChars, MaxHexLen)

\* Color::Hex(hex).to_string()
ColorHexFmt ==
    /\ evaluation = None
    /\ \E hex \in HexStrings :
          Evaluated("Color::Hex", hex, Color_fmt(Color_Hex(hex)))

\* the BoxShadow values tried: every combination of present and absent
\* optional fields, no two fields rendering alike
BoxShadowInputs ==
    {BoxShadow(h, Size_Px(2), blur, spread, c, inset) :
        h \in {Size_Px(0), Size_Em(5)},
        blur \in {None, Some(Size_Px(4))},
        spread \in {None, Some(Size_Px(8))},
        c \in {None, Some(Color_Red), Some(Color_Rgba(0, 0, 0, 1))},
        inset \in BOOLEAN}

\* shadow.to_string()
BoxShadowFmt ==
    /\ evaluation = None
    /\ \E shadow \in BoxShadowInputs :
          Evaluated("BoxShadow::fmt", shadow, BoxShadow_fmt(shadow))

\* the Transition fields tried: durations and delays in tenths of a second
\* (0.3s, 1s, 1.5s), each optional field present and absent
TransitionProperties == {"all", "opacity"}
TransitionDurations == {3, 10, 15}
TransitionTimings == {None, Some("ease"), Some("ease-in-out")}
TransitionDelays == {None, Some(1), Some(20)}

\* Transition { property, duration, timing_function, delay }.to_string()
TransitionFmt ==
    /\ evaluation = None
    /\ \E p \in TransitionProperties, d \in TransitionDurations,
          tf \in TransitionTimings, dl \in TransitionDelays :
          Evaluated("Transition::fmt", Transition(p, d, tf, dl),
                    Transition_fmt(Transition(p, d, tf, dl)))

\* transition::transition_all(duration, timing_function, delay)
TransitionAllCtor ==
    /\ evaluation = None
    /\ \E d \in TransitionDurations, tf \in TransitionTimings,
          dl \in TransitionDelays :
          Evaluated("transition::transition_all", <<d, tf, dl>>,
                    transition_transition_all(d, tf, dl))

\* the builders a typed method is called on: empty, and holding one and two
\* properties
TypedSelves ==
    {Style_new,
     color(Style_new, Color_Red),
     width(color(Style_new, Color_Red), Size_Px(1))}

\* the typed methods called and the values each is given; align_content is
\* the method the module docs of values.rs and properties/mod.rs call
TypedCalls ==
    {<<"color", c>> : c \in {Color_Red, Color_Hex("fff")}}
        \cup {<<"width", w>> : w \in {Size_Px(1), Size_Percent(1000)}}
        \cup {<<"opacity", o>> : o \in {0 - 5, 5, 15}}
        \cup {<<"font_size_enum", [tag |-> t]>> : t \in {"Large", "XxSmall"}}
        \cup {<<"align_items", [tag |-> t]>> : t \in {"Center", "FlexStart"}}
        \cup {<<"align_content", [tag |-> t]>> :
                 t \in {"Center", "SpaceBetween"}}

\* self.m(value) for a method m taking one typed value
TypedMethod ==
    /\ evaluation = None
    /\ \E self \in TypedSelves, call \in TypedCalls :
          Evaluated("Style::" \o call[1], <<self, call[2]>>,
                    method_call(call[1], self, call[2]))

\* the enums of keywords
KeywordTypes ==
    {"Display", "Position", "FlexDirection", "JustifyContent", "AlignItems",
     "AlignContent", "TextAlign", "TextDecoration", "Overflow", "Cursor",
     "Visibility", "BorderStyle"}

\* T::<variant>.to_string(), for a keyword variant of an enum of keywords
KeywordFmt ==
    /\ evaluation = None
    /\ \E T \in KeywordTypes :
          \E t \in Variants(T) :
             Evaluated("Keyword::fmt", <<T, t>>, Value_fmt(T, [tag |-> t]))

\* border::border(width, style, color), of properties.rs
BorderCtor ==
    /\ evaluation = None
    /\ \E w \in ShorthandWidths, style \in ShorthandStyles,
          c \in ShorthandColors :
          Evaluated("border::border", <<w, style, c>>,
                    border_border(w, style, c))

\* self.custom_property(name, value)
CustomPropertyCall ==
    /\ evaluation = None
    /\ \E self \in TypedSelves, name \in Names, value \in CustomStrs :
          Evaluated("Style::custom_property", <<self, name, value>>,
                    Some(custom_property(self, name, str_fmt(value))))

\* self.set_var(name, value)
SetVarCall ==
    /\ evaluation = None
    /\ \E self \in TypedSelves, name \in Names, value \in CustomStrs :
          Evaluated("Style::set_var", <<self, name, value>>,
                    Some(set_var(self, name, str_fmt(value))))

ValueNext ==
    \/ CssVarNew
    \/ CssVarFmt
    \/ IntoValue
    \/ BorderStyleOnly
    \/ BorderWithWidth
    \/ BorderWithColor
    \/ BorderWithWidthAndColor
    \/ FontWeightFmt
    \/ LayoutOpacity
    \/ ColorHexFmt
    \/ BoxShadowFmt
    \/ TransitionFmt
    \/ TransitionAllCtor
    \/ TypedMethod
    \/ KeywordFmt
    \/ BorderCtor
    \/ CustomPropertyCall
    \/ SetVarCall

ValueSpec == Init /\ [][ValueNext]_vars

---------------------------------------------------------------------------
(* Vocabulary of the properties below (none of it models code) *)

Last(s) == s[Len(s)]

\* the parts, joined by single spaces
RECURSIVE SpaceJoined(_)
SpaceJoined(parts) ==
    IF parts = <<>> THEN ""
    ELSE IF Len(parts) = 1 THEN parts[1]
    ELSE parts[1] \o " " \o SpaceJoined(Tail(parts))

RECURSIVE TotalLen(_)
TotalLen(parts) ==
    IF parts = <<>> THEN 0 ELSE Len(parts[1]) + TotalLen(Tail(parts))

\* the renderings of the first n Properties the calls appended
Declarations(n) == [i \in 1..n |-> Property_fmt(Appended[i])]

ends_with(s, suffix) ==
    /\ Len(s) >= Len(suffix)
    /\ SubSeq(s, Len(s) - Len(suffix) + 1, Len(s)) = suffix

\* d occurs in text at position p
OccursAt(text, d, p) ==
    /\ p + Len(d) - 1 <= Len(text)
    /\ SubSeq(text, p, p + Len(d) - 1) = d

\* r is name, a colon and one space, value, a semicolon, and nothing else
IsDeclaration(r, name, value) ==
    /\ Len(r) = Len(name) + Len(value) + 3
    /\ SubSeq(r, 1, Len(name)) = name
    /\ SubSeq(r, Len(name) + 1, Len(name) + 2) = ": "
    /\ SubSeq(r, Len(name) + 3, Len(name) + 2 + Len(value)) = value
    /\ SubSeq(r, Len(r), Len(r)) = ";"

\* the Style a caller gets by appending the Properties ps to a new Style
RECURSIVE Built(_)
Built(ps) ==
    IF ps = <<>>
    THEN Style_new
    ELSE add_property(Built(SubSeq(ps, 1, Len(ps) - 1)), Last(ps))

---------------------------------------------------------------------------
(* C1 *)

\* C1: whatever Properties p1..pn (n >= 1) the calls before an apply() or
\* build() appended, the string returned is render(p1), one space,
\* render(p2), ..., one space, render(pn): insertion order, single spaces.
C1_InsertionOrderSpaceJoined ==
    \A k \in DOMAIN returned :
        returned[k].at >= 1 =>
            returned[k].text = SpaceJoined(Declarations(returned[k].at))

\* three different Properties were appended and apply() then returned
C1_Witness ==
    /\ lastOp = "apply"
    /\ Len(calls) = 3
    /\ Last(returned).at = 3
    /\ Cardinality({calls[i].prop : i \in 1..3}) = 3

---------------------------------------------------------------------------
(* C2 *)

\* C2: every mutating builder call (add_property, custom_property, set_var
\* or a typed method) adds exactly one stored Property, so after k such
\* calls on a new Style the collection holds exactly k Properties.
C2_OnePropertyPerCall == Len(properties) = Len(calls)

\* three calls were made, through three different methods, one of them typed
C2_Witness ==
    /\ Len(calls) = 3
    /\ calls[1].op = "set_var"
    /\ calls[2].op = "custom_property"
    /\ calls[3].op = "transition_all"
    /\ lastOp = "transition_all"

---------------------------------------------------------------------------
(* C3 *)

\* C3: apply() and build() leave the Style unchanged: the stored sequence of
\* Properties after the call equals, element by element, the one before it.
C3_RenderLeavesStyleUnchanged ==
    [][lastOp' \in RenderOps => properties' = properties]_vars

\* apply() has run on a Style of three Properties, which it still holds
C3_Witness ==
    /\ lastOp = "apply"
    /\ Len(properties) = 3
    /\ Last(returned).at = 3
    /\ properties = Appended

---------------------------------------------------------------------------
(* C4 *)

\* C4: apply() on a Style with no Properties returns the empty string; with
\* n >= 1 Properties the output begins with the first declaration and ends
\* with the last one, and holds exactly n - 1 separator spaces besides the
\* declarations.
C4_NoLeadingOrTrailingSeparator ==
    \A k \in DOMAIN returned :
        LET n == returned[k].at
            text == returned[k].text
        IN  /\ n = 0 => text = ""
            /\ n >= 1 =>
                  /\ starts_with(text, Declarations(n)[1])
                  /\ ends_with(text, Declarations(n)[n])
                  /\ Len(text) = TotalLen(Declarations(n)) + (n - 1)

\* apply() ran on the empty Style and again after three Properties
C4_Witness ==
    /\ Len(returned) = 2
    /\ returned[1].at = 0
    /\ returned[1].text = ""
    /\ returned[2].at = 3
    /\ lastOp = "apply"

---------------------------------------------------------------------------
(* C5 *)

\* C5: builder monoid law: for every split of the appended Properties into
\* non-empty A then B, what apply() or build() returns for the Style built
\* by appending A then B is apply() of a Style built from A alone, one
\* space, apply() of a Style built from B alone; and apply() of the empty
\* Style is the empty string.
C5_MonoidLaw ==
    /\ apply(Style_new) = ""
    /\ lastOp \in RenderOps =>
          /\ properties = Built(Appended)
          /\ \A k \in 1..(Len(calls) - 1) :
                LET A == SubSeq(Appended, 1, k)
                    B == SubSeq(Appended, k + 1, Len(calls))
                IN  Last(returned).text =
                        apply(Built(A)) \o " " \o apply(Built(B))

\* apply() returned after A (two Properties) and again after A then B (three)
C5_Witness ==
    /\ Len(returned) = 2
    /\ returned[1].at = 2
    /\ returned[2].at = 3
    /\ Len(properties) = 3
    /\ lastOp = "apply"

---------------------------------------------------------------------------
(* C6 *)

\* C6: apply() may be called at any point, any number of times: two render
\* calls with no mutating call between them return the same string, and a
\* render's result is what a Style given the same mutating calls and never
\* rendered before returns (earlier renders change nothing).
C6_RenderRepeatable ==
    /\ \A i, j \in DOMAIN returned :
          returned[i].at = returned[j].at => returned[i].text = returned[j].text
    /\ \A k \in DOMAIN returned :
          returned[k].text = apply(Built(SubSeq(Appended, 1, returned[k].at)))

\* apply() ran mid-accumulation and again after two more mutating calls
C6_Witness ==
    /\ Len(returned) = 2
    /\ returned[1].at = 1
    /\ returned[2].at = 3
    /\ returned[1].text # returned[2].text
    /\ lastOp = "apply"
    /\ Len(calls) = 3

---------------------------------------------------------------------------
(* C7 *)

\* C7: no deduplication: when a call appends a Property whose name an
\* earlier call already appended (color(a), later color(b)), the Style keeps
\* both entries, each at its own index, and the output rendered from it
\* contains a's declaration and, further on, b's.
C7_NoDeduplication ==
    \A i, j \in 1..Len(calls) :
        (i < j /\ calls[i].prop.name = calls[j].prop.name) =>
            /\ j <= Len(properties)
            /\ properties[i] = calls[i].prop
            /\ properties[j] = calls[j].prop
            /\ lastOp \in RenderOps =>
                  LET text == Last(returned).text
                  IN  \E p \in 1..Len(text) :
                          /\ OccursAt(text, Property_fmt(calls[i].prop), p)
                          /\ \E q \in (p + 1)..Len(text) :
                                OccursAt(text, Property_fmt(calls[j].prop), q)

\* color(a) was followed by color(b), a # b, and apply() then returned
C7_Witness ==
    /\ Len(calls) = 2
    /\ calls[1].op = "color"
    /\ calls[2].op = "color"
    /\ calls[1].prop # calls[2].prop
    /\ lastOp = "apply"
    /\ Last(returned).at = 2

---------------------------------------------------------------------------
(* C8 *)

\* C8: every Property renders as its name, a colon and exactly one space,
\* its value, then ';', with no space before the semicolon and nothing after
\* it; so does the output of a Style holding a single Property.
C8_DeclarationFormat ==
    /\ \A i \in DOMAIN properties :
          /\ IsDeclaration(Property_fmt(properties[i]),
                           properties[i].name, properties[i].value)
          /\ IsDeclaration(mod_Property_fmt(properties[i]),
                           properties[i].name, properties[i].value)
    /\ \A k \in DOMAIN returned :
          returned[k].at = 1 =>
              IsDeclaration(returned[k].text,
                            calls[1].prop.name, calls[1].prop.value)

\* a Style holding one Property, rendered by apply()
C8_Witness ==
    /\ Len(properties) = 1
    /\ lastOp = "apply"
    /\ Last(returned).at = 1
    /\ Last(returned).text = Property_fmt(properties[1])

---------------------------------------------------------------------------
(* C9 *)

\* C9: build() is an alias of apply(): in every reachable state of the
\* builder build() returns exactly the string apply() returns.
C9_BuildIsApply ==
    /\ build(properties) = apply(properties)
    /\ lastOp = "build" => Last(returned).text = apply(properties)

\* build() has just returned the rendering of a Style of two Properties
C9_Witness ==
    /\ lastOp = "build"
    /\ Len(properties) = 2
    /\ Last(returned).at = 2

---------------------------------------------------------------------------
(* C10 *)

\* the name has no surrounding whitespace and no "--" prefix
IsBareName(n) == trim_start(n) = n /\ trim_end(n) = n /\ ~starts_with(n, "--")

\* C10: variable round trip: when set_var(n, v) is followed by
\* custom_property(p, var(n)) with the same n, the name set_var declared is
\* the name var(n) renders inside 'var(...)'; it begins with '--' (and is
\* '--' then n for a bare n), and a Style holding just these two renders as
\* '{name}: {v}; {p}: var({name});'.
C10_VariableRoundTrip ==
    \A i \in 1..(Len(calls) - 1) :
        (/\ calls[i].op = "set_var"
         /\ calls[i + 1].op = "custom_property"
         /\ calls[i + 1].var = calls[i].var) =>
            LET n == calls[i].var[1]
                name == properties[i].name
                v == calls[i].prop.value
                p == calls[i + 1].prop.name
            IN  /\ properties[i + 1].value = "var(" \o name \o ")"
                /\ starts_with(name, "--")
                /\ IsBareName(n) => name = "--" \o n
                /\ \A k \in DOMAIN returned :
                      (i = 1 /\ returned[k].at = 2) =>
                          returned[k].text =
                              name \o ": " \o v \o "; " \o p \o ": var("
                                   \o name \o ");"

\* set_var("primary-color", Blue), custom_property("color",
\* var("primary-color")) and apply() gave the documented string
C10_Witness ==
    /\ Len(calls) = 2
    /\ calls[1] = Call("set_var", Some("primary-color"),
                       Property_new("--primary-color", "blue"))
    /\ calls[2].op = "custom_property"
    /\ calls[2].var = Some("primary-color")
    /\ lastOp = "apply"
    /\ Last(returned).text =
           "--primary-color: blue; color: var(--primary-color);"

---------------------------------------------------------------------------
(* C11 *)

\* the latest call of a function that takes no Style was a call of fn
Did(fn) == evaluation # None /\ evaluation[1].fn = fn

\* its argument and its result
Arg == evaluation[1].arg
Out == evaluation[1].out

\* C11: for any input string, the name CssVar::new stores begins with '--',
\* and CssVar::new of the stored name stores that same name again: it is
\* never given a second '--' prefix.
C11_CssVarNewIdempotent ==
    Did("CssVar::new") =>
        LET stored == Out[1]
        IN  /\ starts_with(stored, "--")
            /\ CssVar_new(stored) = Out
            /\ CssVar_new(stored)[1] # "--" \o stored

\* CssVar::new was given a padded bare name and stored it prefixed
C11_Witness ==
    /\ Did("CssVar::new")
    /\ Arg = " x "
    /\ Out = <<"--x">>

---------------------------------------------------------------------------
(* C12 *)

\* a name without its surrounding whitespace and without one leading "--"
BareOf(name) ==
    LET t == trim(name)
    IN  IF starts_with(t, "--") THEN SubSeq(t, 3, Len(t)) ELSE t

\* the ways of writing the bare name b: as it is, prefixed, padded
Spellings(b) ==
    {b, "--" \o b, " " \o b, b \o " ", " " \o b \o " ", " --" \o b \o " "}

\* C12: a CssVar renders as 'var(', its normalised name (which begins with
\* '--'), ')'; the same bare name written with or without the '--' prefix,
\* with or without surrounding whitespace, gives equal CssVar values and
\* the same rendered text.
C12_CssVarRendering ==
    Did("CssVar::fmt") =>
        LET v == CssVar_new(Arg)
            b == BareOf(Arg)
        IN  /\ Out = "var(" \o v[1] \o ")"
            /\ starts_with(Out, "var(--")
            /\ IsBareName(b) =>
                  \A g \in Spellings(b) :
                      /\ CssVar_new(g) = v
                      /\ CssVar_fmt(CssVar_new(g)) = Out

\* a prefixed, padded name rendered as the bare name does
C12_Witness ==
    /\ Did("CssVar::fmt")
    /\ Arg = " --x"
    /\ Out = "var(--x)"
    /\ Out = CssVar_fmt(CssVar_new("x"))

---------------------------------------------------------------------------
(* C13 *)

\* C13: set_var(name, value) appends exactly one Property; its name is the
\* trimmed name, with '--' put before it only when the trimmed name does
\* not start with '--' already (the name CssVar::new stores for the same
\* input); its value is the rendering of value; it renders as
\* '{that name}: {value};'.
C13_SetVarNormalisation ==
    /\ Len(properties) = Len(calls)
    /\ \A i \in 1..Len(calls) :
          calls[i].op = "set_var" =>
              LET n == calls[i].var[1]
                  stored == properties[i]
              IN  /\ starts_with(trim(n), "--") => stored.name = trim(n)
                  /\ ~starts_with(trim(n), "--") =>
                        stored.name = "--" \o trim(n)
                  /\ stored.name = CssVar_new(n)[1]
                  /\ stored.value = Color_fmt(Color_Blue)
                  /\ Property_fmt(stored) =
                        stored.name \o ": " \o stored.value \o ";"
                  /\ \A k \in DOMAIN returned :
                        (i = 1 /\ returned[k].at = 1) =>
                            returned[k].text =
                                stored.name \o ": " \o stored.value \o ";"

\* set_var(" x ", Blue) on a new Style, then apply()
C13_Witness ==
    /\ Len(calls) = 1
    /\ calls[1].op = "set_var"
    /\ calls[1].var = Some(" x ")
    /\ lastOp = "apply"
    /\ Last(returned).text = "--x: blue;"

---------------------------------------------------------------------------
(* C14 *)

\* the struct types of values.rs
StructTypes == {"BoxShadow", "Transition"}

\* C14 as stated: every value type, BoxShadow and Transition included, has
\* a conversion from CssVar, and convert-then-render gives exactly what the
\* CssVar renders as.
C14_EveryTypeTakesAVar ==
    Did("From<CssVar>") => Out = Some(CssVar_fmt(var(Arg[2])))

\* C14, amended: each of the eighteen enum types has a Var variant that
\* renders exactly as the CssVar it holds ('var(--name)'), and converting a
\* CssVar into the enum yields that variant, so convert-then-render equals
\* rendering the CssVar; the structs BoxShadow and Transition have no
\* conversion from CssVar.
C14_EveryEnumTakesAVar ==
    Did("From<CssVar>") =>
        LET T == Arg[1]
            v == var(Arg[2])
        IN  /\ T \notin StructTypes =>
                  /\ into(T, v) # None
                  /\ into(T, v)[1].tag = "Var"
                  /\ into(T, v)[1].var = v
                  /\ Out = Some(CssVar_fmt(v))
                  /\ Out = Some("var(" \o v[1] \o ")")
            /\ T \in StructTypes => Out = None

\* var("primary-color") was converted into a ZIndex and rendered
C14_Witness ==
    /\ Did("From<CssVar>")
    /\ Arg = <<"ZIndex", "primary-color">>
    /\ Out = Some("var(--primary-color)")

---------------------------------------------------------------------------
(* C15 *)

\* the CSS property name a directional border method sets
DirectionalName(op) ==
    CASE op = "border_top" -> "border-top"
      [] op = "border_right" -> "border-right"
      [] op = "border_bottom" -> "border-bottom"
      [] op = "border_left" -> "border-left"

\* the text of the arguments the model drives the border methods with
WidthText(w) == IF w = Size_Px(1) THEN "1px" ELSE "3px"
StyleText(st) == IF st = BorderStyle_Solid THEN "solid" ELSE "dashed"
ColorText(c) == IF c = Color_Red THEN "red" ELSE "blue"

\* C15: border_top(width, style, color), and likewise border_right,
\* border_bottom and border_left, appends one Property, and it renders as
\* 'border-top: {width} {style} {color};' (resp. border-right,
\* border-bottom, border-left).
C15_DirectionalBorders ==
    /\ Len(properties) = Len(calls)
    /\ \A i \in 1..Len(calls) :
          LET a == calls[i].var[1]
          IN  /\ Property_fmt(properties[i]) =
                     DirectionalName(calls[i].op) \o ": " \o WidthText(a[1])
                         \o " " \o StyleText(a[2]) \o " " \o ColorText(a[3])
                         \o ";"
              /\ properties[i].name = DirectionalName(calls[i].op)
    /\ \A k \in DOMAIN returned :
          returned[k].at = 1 =>
              returned[k].text = Property_fmt(properties[1])

\* border_top(Px(1), Solid, Red) on a new Style, then apply()
C15_Witness ==
    /\ Len(calls) = 1
    /\ calls[1].op = "border_top"
    /\ lastOp = "apply"
    /\ Last(returned).text = "border-top: 1px solid red;"

---------------------------------------------------------------------------
(* C16 *)

\* the CSS property a border module sets
ShorthandName(m) ==
    CASE m = "border" -> "border"
      [] m = "border_top" -> "border-top"
      [] m = "border_right" -> "border-right"
      [] m = "border_bottom" -> "border-bottom"
      [] m = "border_left" -> "border-left"

\* the renderings of the components a shorthand was given, in the order
\* width, style, colour
PresentParts(a) ==
    (IF a.width # None THEN <<Size_fmt(a.width[1])>> ELSE <<>>)
        \o <<BorderStyle_fmt(a.style)>>
        \o (IF a.color # None THEN <<Color_fmt(a.color[1])>> ELSE <<>>)

\* C16: every border shorthand constructor (border, border-top,
\* border-right, border-bottom, border-left; style only, with width, with
\* colour, with both) renders its value as the components present among
\* width, style, colour, in that order, joined by single spaces: the style
\* is always there, an absent width or colour leaves no placeholder and no
\* extra space.
C16_ShorthandParts ==
    Did("shorthand") =>
        /\ Out.name = ShorthandName(Arg.module)
        /\ Out.value = SpaceJoined(PresentParts(Arg))
        /\ Len(Out.value) =
               TotalLen(PresentParts(Arg)) + Len(PresentParts(Arg)) - 1
        /\ starts_with(Out.value, PresentParts(Arg)[1])
        /\ ends_with(Out.value, Last(PresentParts(Arg)))
        /\ (Arg.width = None /\ Arg.color = None) =>
              Out.value = BorderStyle_fmt(Arg.style)

\* border_top_with_color(Solid, Red): the width is absent
C16_Witness ==
    /\ Did("shorthand")
    /\ Arg = Shorthand("border_top", None, BorderStyle_Solid, Some(Color_Red))
    /\ Property_fmt(Out) = "border-top: solid red;"

---------------------------------------------------------------------------
(* C17 *)

\* the nine valid weights, as CSS writes them
HundredsText ==
    <<"100", "200", "300", "400", "500", "600", "700", "800", "900">>

\* C17: FontWeight::Weight(n) renders as the decimal n when n is a multiple
\* of 100 with 100 <= n <= 900, and as '400' for every other n of
\* 0..65535; what it renders is always one of 100, 200, ..., 900.
C17_FontWeightClamp ==
    Did("FontWeight::fmt") =>
        /\ (Arg % 100 = 0 /\ 100 <= Arg /\ Arg <= 900) =>
              Out = HundredsText[Arg \div 100]
        /\ ~(Arg % 100 = 0 /\ 100 <= Arg /\ Arg <= 900) => Out = "400"
        /\ \E k \in 1..9 : Out = HundredsText[k]

\* Weight(150), in range but no multiple of 100, rendered as 400
C17_Witness ==
    /\ Did("FontWeight::fmt")
    /\ Arg = 150
    /\ Out = "400"

---------------------------------------------------------------------------
(* C18 *)

\* how CSS writes t tenths, for 0 <= t <= 10
UnitIntervalText(t) ==
    CASE t = 0 -> "0"
      [] t = 10 -> "1"
      [] OTHER -> "0." \o Digit(t)

\* C18: the opacity constructor clamps its argument into [0, 1] before
\* rendering: above 1 it renders 'opacity: 1;', below 0 'opacity: 0;',
\* within [0, 1] the argument unchanged; it always returns a Property, never
\* an error.
C18_OpacityClamp ==
    Did("layout::opacity") =>
        /\ DOMAIN Out = {"name", "value"}
        /\ Out.name = "opacity"
        /\ Arg > 10 => Property_fmt(Out) = "opacity: 1;"
        /\ Arg < 0 => Property_fmt(Out) = "opacity: 0;"
        /\ (0 <= Arg /\ Arg <= 10) =>
              Property_fmt(Out) = "opacity: " \o UnitIntervalText(Arg) \o ";"

\* opacity(1.5) rendered as 'opacity: 1;'
C18_Witness ==
    /\ Did("layout::opacity")
    /\ Arg = 15
    /\ Property_fmt(Out) = "opacity: 1;"

---------------------------------------------------------------------------
(* C19 *)

\* C19: Color::Hex(s) always renders with a leading '#', supplied by the
\* caller or not, and never with a '#' added to one that is there: the
\* output is s itself when s starts with '#', and '#' then s otherwise.
C19_HexLeadingHash ==
    Did("Color::Hex") =>
        /\ starts_with(Out, "#")
        /\ starts_with(Arg, "#") => Out = Arg
        /\ ~starts_with(Arg, "#") => Out = "#" \o Arg
        /\ Len(Out) <= Len(Arg) + 1
        /\ ends_with(Out, Arg)

\* Hex("ff") rendered as '#ff'
C19_Witness ==
    /\ Did("Color::Hex")
    /\ Arg = "ff"
    /\ Out = "#ff"

---------------------------------------------------------------------------
(* C20 *)

\* the rendering of a present optional field; nothing for an absent one
PresentSize(field) == IF field # None THEN <<Size_fmt(field[1])>> ELSE <<>>
PresentColor(field) == IF field # None THEN <<Color_fmt(field[1])>> ELSE <<>>

\* the renderings of a BoxShadow's offsets and of its present optional
\* fields, in the documented order
ShadowParts(b) ==
    <<Size_fmt(b.h_offset), Size_fmt(b.v_offset)>>
        \o PresentSize(b.blur)
        \o PresentSize(b.spread)
        \o PresentColor(b.color)

\* C20: a BoxShadow renders as the token 'inset ' exactly when inset is
\* true, then h_offset, v_offset, and blur, spread and color each only if
\* present, in that order, separated by single spaces, with no trailing
\* space.
C20_BoxShadowOrder ==
    Did("BoxShadow::fmt") =>
        /\ Out = (IF Arg.inset THEN "inset " ELSE "")
                     \o SpaceJoined(ShadowParts(Arg))
        /\ starts_with(Out, "inset ") <=> Arg.inset
        /\ ~ends_with(Out, " ")
        /\ ends_with(Out, Last(ShadowParts(Arg)))

\* an inset shadow with blur and colour, and no spread
C20_Witness ==
    /\ Did("BoxShadow::fmt")
    /\ Arg = BoxShadow(Size_Px(0), Size_Px(2), Some(Size_Px(4)), None,
                       Some(Color_Rgba(0, 0, 0, 1)), TRUE)
    /\ Out = "inset 0px 2px 4px rgba(0, 0, 0, 0.1)"

---------------------------------------------------------------------------
(* C21 *)

\* a duration or delay as it is written: the number, then 's'
SecondsText(t) == fmt_f32(t) \o "s"

\* the renderings of a Transition's property and duration and of its
\* present optional fields, in the documented order
TransitionParts(t) ==
    <<t.property, SecondsText(t.duration)>>
        \o (IF t.timing_function # None
            THEN <<t.timing_function[1]>> ELSE <<>>)
        \o (IF t.delay # None THEN <<SecondsText(t.delay[1])>> ELSE <<>>)

\* C21: a Transition renders as '{property} {duration}s', then the timing
\* function only if present, then '{delay}s' only if present, in that
\* order; transition_all(d, tf, dl) starts with 'all {d}s' and is the
\* Property that transition(Transition{"all", d, tf, dl}) makes.
C21_TransitionRendering ==
    /\ Did("Transition::fmt") =>
          /\ Out = SpaceJoined(TransitionParts(Arg))
          /\ starts_with(Out, Arg.property \o " "
                                  \o SecondsText(Arg.duration))
    /\ Did("transition::transition_all") =>
          /\ starts_with(Out.value, "all " \o SecondsText(Arg[1]))
          /\ Out.value =
                SpaceJoined(TransitionParts(
                    Transition("all", Arg[1], Arg[2], Arg[3])))
          /\ Out = transition_transition(
                       Transition("all", Arg[1], Arg[2], Arg[3]))

\* transition_all with both a timing function and a delay
C21_Witness ==
    /\ Did("transition::transition_all")
    /\ Arg = <<3, Some("ease"), Some(1)>>
    /\ Property_fmt(Out) = "transition: all 0.3s ease 0.1s;"

---------------------------------------------------------------------------
(* C22 *)

\* C22: the builder offers an align_content method; called with v it
\* appends one property, the one the align_content constructor makes for v,
\* and on a fresh builder apply() then returns 'align-content: {v};'.
C22_AlignContentMethod ==
    Did("Style::align_content") =>
        /\ Out # None
        /\ Out[1] = Append(Arg[1], mod_align_content_align_content(Arg[2]))
        /\ Arg[1] = Style_new =>
              apply(Out[1])
                  = "align-content: " \o AlignContent_fmt(Arg[2]) \o ";"

---------------------------------------------------------------------------
(* C23 *)

\* what a completed call yields: a string, a CssVar, a Property, a Style
IsString(x) == x \in STRING
IsCssVar(v) == Len(v) = 1 /\ IsString(v[1])
IsProperty(p) ==
    /\ DOMAIN p = {"name", "value"}
    /\ IsString(p.name)
    /\ IsString(p.value)
IsStyle(s) == \A i \in DOMAIN s : IsProperty(s[i])

\* the functions called on their own that return a String, and a Property
StringFns ==
    {"CssVar::fmt", "FontWeight::fmt", "Color::Hex", "BoxShadow::fmt",
     "Transition::fmt", "Keyword::fmt"}
PropertyFns ==
    {"shorthand", "layout::opacity", "transition::transition_all",
     "border::border"}

\* the latest call is one the compiler accepts: a conversion that has an
\* impl, a method that impl Style declares
WellTyped ==
    /\ evaluation # None
    /\ Did("From<CssVar>") => Arg[1] \in ImplFromCssVar
    /\ \A call \in TypedCalls :
          Did("Style::" \o call[1]) => call[1] \in StyleMethods

\* C23: no operation has an error outcome: every well-typed call of a
\* value rendering yields a string, of CssVar::new a CssVar, of a property
\* constructor a Property, and of a builder method a builder holding one
\* more Property, all of them well-formed; that includes empty and oddly
\* prefixed variable names, out-of-range font weights and out-of-range
\* opacities.
C23_NoErrorOutcome ==
    WellTyped =>
        CASE Did("CssVar::new") -> IsCssVar(Out)
          [] evaluation[1].fn \in StringFns -> IsString(Out)
          [] Did("From<CssVar>") -> Out # None /\ IsString(Out[1])
          [] evaluation[1].fn \in PropertyFns -> IsProperty(Out)
          [] OTHER ->
                /\ Out # None
                /\ IsStyle(Out[1])
                /\ Len(Out[1]) = Len(Arg[1]) + 1

\* the builder given an opacity above the range
C23_Witness ==
    /\ Did("Style::opacity")
    /\ Arg = <<Style_new, 15>>
    /\ Out = Some(<<Property_new("opacity", "1")>>)

---------------------------------------------------------------------------
(* C24 *)

UpperCase == "ABCDEFGHIJKLMNOPQRSTUVWXYZ"
LowerCase == "abcdefghijklmnopqrstuvwxyz"

\* ch is a capital letter; the small letter of a capital, any other
\* character unchanged
IsUpper(ch) == \E k \in 1..26 : SubSeq(UpperCase, k, k) = ch
Lower(ch) ==
    IF IsUpper(ch)
    THEN LET k == CHOOSE n \in 1..26 : SubSeq(UpperCase, n, n) = ch
         IN  SubSeq(LowerCase, k, k)
    ELSE ch

\* the words of a variant's name from its i-th character on, in small
\* letters, sep before each word but the name's first
RECURSIVE WordsFrom(_, _, _)
WordsFrom(variant, sep, i) ==
    IF i > Len(variant)
    THEN ""
    ELSE LET ch == SubSeq(variant, i, i)
         IN  (IF IsUpper(ch) /\ i > 1 THEN sep ELSE "")
                 \o Lower(ch) \o WordsFrom(variant, sep, i + 1)

Hyphenated(variant) == WordsFrom(variant, "-", 1)
Spaced(variant) == WordsFrom(variant, " ", 1)

\* the keywords written with a space, in the two enums that have them
SpacedKeywords ==
    {"FirstBaseline", "LastBaseline", "SafeCenter", "UnsafeCenter"}
SpacedTypes == {"AlignItems", "AlignContent"}

---------------------------------------------------------------------------
(* C25 *)

\* C25: stored properties are immutable and the collection is append-only:
\* across every builder call a property at index i stays at index i with
\* the same name and the same value text, so the collection before the
\* call is a prefix of the collection after it (and, step by step, of
\* every later one).
C25_AppendOnly ==
    [][/\ Len(properties') >= Len(properties)
       /\ \A i \in DOMAIN properties :
             /\ properties'[i].name = properties[i].name
             /\ properties'[i].value = properties[i].value
       /\ SubSeq(properties', 1, Len(properties)) = properties]_vars

\* a colour was set, then set again to another value and rendered; the
\* first is still stored first
C25_Witness ==
    /\ Len(calls) = 3
    /\ calls[1].op = "color"
    /\ calls[2].op = "color"
    /\ calls[1].prop # calls[2].prop
    /\ properties[1] = calls[1].prop
    /\ lastOp \in RenderOps

---------------------------------------------------------------------------
(* C26 *)

\* the typed methods called that impl Style declares
TypedMethods == {call[1] : call \in TypedCalls} \cap StyleMethods

\* the property constructor of the same name as typed method m, on value
SameNameConstructor(m, value) ==
    CASE m = "color" -> color_color(value)
      [] m = "width" -> size_width(value)
      [] m = "align_items" -> display_align_items(value)
      [] m = "font_size_enum" -> font_font_size_enum(value)
      [] m = "opacity" -> layout_opacity(value)

\* C26: each typed builder method is pure sugar: Style::m(value) leaves
\* the builder as add_property(c(value)) would, c the property constructor
\* of the same name, whatever the builder held and whatever the value; so
\* Style::opacity stores the constructor's clamped value, out of range or
\* not, and Style::font_size_enum stores the name 'font-size'.
C26_TypedMethodsAreSugar ==
    \A m \in TypedMethods :
        Did("Style::" \o m) =>
            /\ Out = Some(add_property(Arg[1],
                                       SameNameConstructor(m, Arg[2])))
            /\ SubSeq(Out[1], 1, Len(Arg[1])) = Arg[1]
            /\ m = "opacity" =>
                  Last(Out[1]) =
                      Property_new("opacity",
                                   IF Arg[2] > 10 THEN "1"
                                   ELSE IF Arg[2] < 0 THEN "0"
                                   ELSE UnitIntervalText(Arg[2]))
            /\ m = "font_size_enum" => Last(Out[1]).name = "font-size"

\* font_size_enum called on a builder that holds two properties
C26_Witness ==
    /\ Did("Style::font_size_enum")
    /\ Len(Arg[1]) = 2
    /\ Arg[2] = [tag |-> "Large"]
    /\ Property_fmt(Last(Out[1])) = "font-size: large;"

---------------------------------------------------------------------------
(* C27 *)

\* C27: the two implementations of the full border shorthand agree: for
\* every width, style and colour, border(width, style, color) of
\* properties.rs, which formats the three in one string, and
\* border_with_width_and_color(width, style, color) of
\* properties/border.rs, which joins a list of parts, make the same
\* declaration text.
C27_BorderImplementationsAgree ==
    /\ Did("border::border") =>
          /\ Property_fmt(Out) =
                Property_fmt(mod_border_border_with_width_and_color(
                                 Arg[1], Arg[2], Arg[3]))
          /\ Out = mod_border_border_with_width_and_color(
                       Arg[1], Arg[2], Arg[3])
    /\ (/\ Did("shorthand")
        /\ Arg.module = "border"
        /\ Arg.width # None
        /\ Arg.color # None) =>
          Property_fmt(Out) =
              Property_fmt(border_border(Arg.width[1], Arg.style,
                                         Arg.color[1]))

\* the three-argument constructor given a variable width and an rgb colour
C27_Witness ==
    /\ Did("border::border")
    /\ Arg = <<Size_Var(var("w")), BorderStyle_Dashed, Color_Rgb(255, 0, 0)>>
    /\ Property_fmt(Out) = "border: var(--w) dashed rgb(255, 0, 0);"

---------------------------------------------------------------------------
(* C28 *)

\* the shadow b with its blur and its spread exchanged
Exchanged(b) == [b EXCEPT !.blur = b.spread, !.spread = b.blur]

\* C28: BoxShadow rendering does not tell a missing blur from a missing
\* spread: a shadow with only a spread x and the shadow with only a blur x,
\* equal in every other field, are two different values that render as the
\* same text, so the rendering is not injective.
C28_BlurSpreadAmbiguity ==
    (/\ Did("BoxShadow::fmt")
     /\ (Arg.blur = None) # (Arg.spread = None)) =>
        /\ Exchanged(Arg) # Arg
        /\ BoxShadow_fmt(Exchanged(Arg)) = Out

\* a shadow with a spread of 8px and no blur, rendered as one with a blur
\* of 8px and no spread is
C28_Witness ==
    /\ Did("BoxShadow::fmt")
    /\ Arg = BoxShadow(Size_Px(0), Size_Px(2), None, Some(Size_Px(8)),
                       Some(Color_Red), FALSE)
    /\ Out = "0px 2px 8px red"
    /\ Out = BoxShadow_fmt(BoxShadow(Size_Px(0), Size_Px(2),
                                     Some(Size_Px(8)), None,
                                     Some(Color_Red), FALSE))

---------------------------------------------------------------------------
(* C29 *)

\* the name is already what set_var would declare: trimmed, '--' in front
IsNormalised(name) == trim(name) = name /\ starts_with(name, "--")

\* C29: custom_property stores the name exactly as given, untrimmed and
\* unprefixed, unlike set_var: it appends '{name}: {value};' with the name
\* verbatim ('x: v;' for 'x', the spaces kept for ' x '), and appends what
\* set_var appends for a name only when the name is already normalised, so
\* custom_property('--x', v) and set_var('x', v) append the same
\* declaration.
C29_CustomPropertyVerbatim ==
    /\ Did("Style::custom_property") =>
          /\ Len(Out[1]) = Len(Arg[1]) + 1
          /\ SubSeq(Out[1], 1, Len(Arg[1])) = Arg[1]
          /\ Last(Out[1]).name = Arg[2]
          /\ Len(Last(Out[1]).name) = Len(Arg[2])
          /\ Property_fmt(Last(Out[1])) = Arg[2] \o ": " \o Arg[3] \o ";"
          /\ Out[1] = set_var(Arg[1], Arg[2], Arg[3]) <=> IsNormalised(Arg[2])
    /\ Did("Style::set_var") =>
          /\ Out[1] = custom_property(Arg[1], "--" \o BareOf(Arg[2]), Arg[3])
          /\ Arg[2] = "x" => Out[1] = custom_property(Arg[1], "--x", Arg[3])

\* custom_property given a padded name
C29_Witness ==
    /\ Did("Style::custom_property")
    /\ Arg = <<Style_new, " x ", "blue">>
    /\ apply(Out[1]) = " x : blue;"

---------------------------------------------------------------------------
(* C30 *)

\* C30: hex normalisation is idempotent: for any string s, with r the
\* rendering of Color::Hex(s), Color::Hex(r) renders as r again; rendering
\* a normalised value adds no second '#'.
C30_HexIdempotent ==
    Did("Color::Hex") =>
        /\ Color_fmt(Color_Hex(Out)) = Out
        /\ Len(Color_fmt(Color_Hex(Out))) = Len(Out)
        /\ ~starts_with(Arg, "#") =>
              ~starts_with(Color_fmt(Color_Hex(Out)), "##")

\* a string without '#': the rendering gains one, its re-rendering none
C30_Witness ==
    /\ Did("Color::Hex")
    /\ Arg = "fff"
    /\ Out = "#fff"
    /\ Color_fmt(Color_Hex(Out)) = "#fff"

===========================================================================
